---- MODULE Spec2Model ----
(***************************************************************************)
(* A model of the document question-answering application:                 *)
(*   - the FastAPI backend of backend/backend-setup.md (/upload, /ask),    *)
(*   - the React hook useAgenticChat (uploadFiles, processQuery, ...),     *)
(*   - the ChatInterface component (handleSendMessage),                    *)
(*   - the response display (AgenticResponseDisplay),                      *)
(*   - the query classifier, the index search and the index manager, whose *)
(*     code is not part of the sources and which are modelled from the     *)
(*     written specification.                                              *)
(***************************************************************************)
EXTENDS Integers, Sequences, FiniteSets, TLC

VARIABLES
    \* ---- backend (backend-setup.md) ----
    vector_stores,    \* dict filename -> vector store (the content it indexes)
    uploaded_files,   \* dict filename -> size of the stored content
    embedRuns,        \* content -> number of FAISS.from_documents runs on it
    askResp,          \* the last /ask response
    \* ---- hook useAgenticChat ----
    isProcessing,
    currentResponse,
    error,
    uploadedFiles,
    messageHistory,
    pdfReady,
    batches,          \* the uploadFiles calls: their files and upload requests
    queries,          \* the processQuery calls
    clearing,         \* clearHistory / reset calls awaiting the memory-clear fetch
    \* ---- ChatInterface ----
    messages,
    selectedFiles,
    isLoading,
    chatError,
    chatPending,      \* the handleSendMessage call awaiting its service call
    sends,            \* number of handleSendMessage calls issued
    \* ---- classifier ----
    clsIn,
    clsOut,
    \* ---- index search ----
    searchIn,
    searchOut,
    \* ---- index manager ----
    indexCache,       \* built indexes
    buildLog,         \* the document sets built, in order
    lastIndex,        \* the index the last get_or_build returned
    requests,         \* number of get_or_build requests issued
    \* ---- Compare page ----
    text1,
    text2,
    compareType,
    comparison,
    compareIsLoading,
    compareToast,     \* the description of the last toast
    comparePending,   \* the compareTexts call awaiting its reply
    compareClicks,    \* number of handleCompare calls
    compareCalls,     \* number of compareTexts requests issued
    \* ---- Summarize page ----
    inputText,
    summaryType,
    audience,
    summary,
    summarizeIsLoading,
    summarizeToast,
    summarizePending, \* the summarizeText call awaiting its reply
    summarizeClicks,  \* number of handleSummarize calls
    summarizeCalls,   \* number of summarizeText requests issued
    \* ---- session of the request handlers ----
    sessionMessages,  \* the session's message list
    sessionInFlight,  \* the requests issued and not completed
    sessionIssued,    \* number of requests issued
    sessionCompleted, \* the requests in the order they completed
    \* ---- AgenticResponseDisplay ----
    displayProps,     \* the props: response, isLoading, error
    displayShown,     \* what renderResult shows for it
    \* ---- memory-clear request of clearHistory / reset ----
    memoryClear,      \* how the last fetch of /api/memory/clear settled
    \* ---- ChatInterface: the text input ----
    inputValue,
    sendClicks        \* number of handleSubmit events

backendVars  == <<vector_stores, uploaded_files, embedRuns, askResp>>
hookVars     == <<isProcessing, currentResponse, error, uploadedFiles,
                  messageHistory, pdfReady, batches, queries, clearing>>
chatVars     == <<messages, selectedFiles, isLoading, chatError, chatPending, sends>>
classifyVars == <<clsIn, clsOut>>
searchVars   == <<searchIn, searchOut>>
indexVars    == <<indexCache, buildLog, lastIndex, requests>>
compareVars  == <<text1, text2, compareType, comparison, compareIsLoading,
                  compareToast, comparePending, compareClicks, compareCalls>>
summarizeVars == <<inputText, summaryType, audience, summary, summarizeIsLoading,
                   summarizeToast, summarizePending, summarizeClicks, summarizeCalls>>
sessionVars  == <<sessionMessages, sessionInFlight, sessionIssued, sessionCompleted>>
displayVars  == <<displayProps, displayShown>>
clearVars    == <<memoryClear>>
inputVars    == <<inputValue, sendClicks>>
otherVars    == <<compareVars, summarizeVars, sessionVars, displayVars, clearVars, inputVars>>
vars == <<backendVars, hookVars, chatVars, classifyVars, searchVars, indexVars, otherVars>>

(***************************************************************************)
(* Bounds of the model.                                                    *)
(***************************************************************************)
MaxBatches == 2
MaxBatch == 2
MaxQueries == 1
MaxMessages == 2

Min(a, b) == IF a <= b THEN a ELSE b

Range(s) == {s[i] : i \in 1..Len(s)}

(***************************************************************************)
(* Files: a display name and the bytes.  The bytes stand for their content *)
(* hash.  The set holds two files of one name with different bytes, two    *)
(* files of the same bytes under different names, and a file that is no    *)
(* PDF.                                                                    *)
(***************************************************************************)
Names == {"a.pdf", "b.pdf", "n.txt"}
Contents == {"X", "Y"}

File(n, c) == [name |-> n, content |-> c]

Files == {File("a.pdf", "X"), File("a.pdf", "Y"), File("b.pdf", "X"), File("n.txt", "Y")}

\* file.filename.endswith('.pdf')
IsPdf(n) == n \in {"a.pdf", "b.pdf"}

\* len(content)
Size(c) == IF c = "X" THEN 1 ELSE 2

\* the number of chunks the splitter cuts a content into
NumChunks(c) == IF c = "X" THEN 2 ELSE 7

\* a retriever that is asked for one chunk fewer
DefaultKOneLess == 5 - 1

\* search_kwargs={"k": 5}
DefaultK == 5

\* d[k] = v on a Python dict
Put(d, k, v) == [x \in DOMAIN d \cup {k} |-> IF x = k THEN v ELSE d[x]]

EmptyDict == [x \in {} |-> 0]


(***************************************************************************)
(* Responses of the agentic query service, as the client reads them:       *)
(* {success, category, result: {summary, comparison, answer, message,      *)
(* requires_document, source_chunks}}.  A payload field is TRUE when it    *)
(* holds a non-empty text.                                                 *)
(***************************************************************************)
Categories == {"summarization", "comparison", "rag", "chat"}

Resp(ok, cat, su, co, an, me, rd, n) ==
    [success |-> ok, category |-> cat, summary |-> su, comparison |-> co,
     answer |-> an, message |-> me, requires_document |-> rd, sources |-> n]

\* currentResponse: null
NullResponse == Resp(FALSE, "null", FALSE, FALSE, FALSE, FALSE, FALSE, 0)

\* the responses the hook's service call is answered with
HookResponses ==
    { Resp(ok, "summarization", TRUE, FALSE, FALSE, FALSE, FALSE, 0) : ok \in BOOLEAN } \cup
    { Resp(ok, "rag", FALSE, FALSE, TRUE, FALSE, FALSE, 2) : ok \in BOOLEAN } \cup
    { Resp(ok, "rag", FALSE, FALSE, FALSE, TRUE, TRUE, 0) : ok \in BOOLEAN } \cup
    { Resp(TRUE, "chat", FALSE, FALSE, FALSE, TRUE, FALSE, 0) }

NoError == "null"

(***************************************************************************)
(* Backend: api_server.py of backend-setup.md                              *)
(***************************************************************************)
NoAsk == [called |-> FALSE, filename |-> "", had_store |-> FALSE, stores |-> 0, status |-> 0,
          success |-> FALSE, requires_document |-> FALSE, sources |-> 0, served |-> ""]

InitBackend ==
    /\ vector_stores = EmptyDict
    /\ uploaded_files = EmptyDict
    /\ embedRuns = [c \in Contents |-> 0]
    /\ askResp = NoAsk

\* the key process_pdf_and_create_vectorstore stores the vector store under
StoreKey(f) == f.name

\* a pipeline that keeps the store of the chunks embedded before the failure
ProcessStoresKeepsPartial(vs, f, outcome) ==
    IF outcome \in {"ok", "embed_error"} THEN Put(vs, StoreKey(f), f.content) ELSE vs

\* process_pdf_and_create_vectorstore: outcome "extract_error" is a failure of
\* the loader or the splitter (before any embedding), "embed_error" a failure
\* of FAISS.from_documents, "ok" a completed run, which stores the vector store.
ProcessStores(vs, f, outcome) ==
    IF outcome = "ok" THEN Put(vs, StoreKey(f), f.content) ELSE vs

\* FAISS.from_documents runs for every upload that gets past the loader
ProcessRuns(er, vs, f, outcome) ==
    IF outcome = "extract_error" THEN er ELSE [er EXCEPT ![f.content] = @ + 1]

\* an upload_pdf that registers the vector store of a file as soon as its
\* bytes are read, before it is processed
UploadReceiveStoresEarly(b, i) ==
    /\ i \in 1..Len(batches[b].files)
    /\ batches[b].st[i] = "sent"
    /\ \E reply \in {"fail", "reject"} :
          batches' = [batches EXCEPT ![b].st[i] =
                         IF IsPdf(batches[b].files[i].name) THEN "read" ELSE reply]
    /\ vector_stores' = IF IsPdf(batches[b].files[i].name)
                           THEN Put(vector_stores, batches[b].files[i].name,
                                    batches[b].files[i].content)
                           ELSE vector_stores
    /\ UNCHANGED <<uploaded_files, embedRuns, askResp, isProcessing, currentResponse,
                   error, uploadedFiles, messageHistory, pdfReady, queries, clearing>>
    /\ UNCHANGED <<chatVars, classifyVars, searchVars, indexVars, otherVars>>

\* upload_pdf up to `content = await file.read()`: the extension check
UploadReceive(b, i) ==
    /\ i \in 1..Len(batches[b].files)
    /\ batches[b].st[i] = "sent"
    /\ \E reply \in {"fail", "reject"} :
          batches' = [batches EXCEPT ![b].st[i] =
                         IF IsPdf(batches[b].files[i].name) THEN "read" ELSE reply]
    /\ UNCHANGED <<backendVars, isProcessing, currentResponse, error, uploadedFiles,
                   messageHistory, pdfReady, queries, clearing>>
    /\ UNCHANGED <<chatVars, classifyVars, searchVars, indexVars, otherVars>>

\* upload_pdf after the read: the temporary file, the processing, the file
\* info, the reply.  An exception becomes HTTP 500, which the client's service
\* call turns into {success: false} or into a rejection.
UploadProcess(b, i) ==
    /\ i \in 1..Len(batches[b].files)
    /\ batches[b].st[i] = "read"
    /\ \E outcome \in {"ok", "extract_error", "embed_error"}, reply \in {"fail", "reject"} :
         LET f == batches[b].files[i] IN
         /\ vector_stores' = ProcessStores(vector_stores, f, outcome)
         /\ embedRuns' = ProcessRuns(embedRuns, vector_stores, f, outcome)
         /\ uploaded_files' = IF outcome = "ok"
                                 THEN Put(uploaded_files, f.name, Size(f.content))
                                 ELSE uploaded_files
         /\ batches' = [batches EXCEPT ![b].st[i] = IF outcome = "ok" THEN "ok" ELSE reply]
    /\ UNCHANGED <<askResp, isProcessing, currentResponse, error, uploadedFiles,
                   messageHistory, pdfReady, queries, clearing>>
    /\ UNCHANGED <<chatVars, classifyVars, searchVars, indexVars, otherVars>>

\* ask_question: 400 when the filename has no vector store; otherwise the
\* retriever's top DefaultK chunks and the answer, or 500 when the
\* configuration, the retrieval or the generation raises.  served is the
\* content whose vector store the retriever was made from.
AskReply(vs, filename, ok) ==
    IF filename \notin DOMAIN vs
    THEN [called |-> TRUE, filename |-> filename, had_store |-> FALSE,
          stores |-> Cardinality(DOMAIN vs), status |-> 400,
          success |-> FALSE, requires_document |-> FALSE, sources |-> 0, served |-> ""]
    ELSE IF ok
    THEN [called |-> TRUE, filename |-> filename, had_store |-> TRUE,
          stores |-> Cardinality(DOMAIN vs), status |-> 200,
          success |-> TRUE, requires_document |-> FALSE,
          sources |-> Min(DefaultK, NumChunks(vs[filename])), served |-> vs[filename]]
    ELSE [called |-> TRUE, filename |-> filename, had_store |-> TRUE,
          stores |-> Cardinality(DOMAIN vs), status |-> 500,
          success |-> FALSE, requires_document |-> FALSE, sources |-> 0,
          served |-> vs[filename]]

AskQuestion ==
    /\ \E filename \in Names, ok \in BOOLEAN :
          askResp' = AskReply(vector_stores, filename, ok)
    /\ UNCHANGED <<vector_stores, uploaded_files, embedRuns>>
    /\ UNCHANGED <<hookVars, chatVars, classifyVars, searchVars, indexVars, otherVars>>


(***************************************************************************)
(* Hook: useAgenticChat                                                    *)
(***************************************************************************)
IdleBatch == [phase |-> "idle", files |-> <<>>, st |-> <<>>]

IdleQuery == [phase |-> "idle", has_pdf |-> FALSE, message_count |-> 0]

\* the file lists uploadFiles is called with: none, one file, the same bytes
\* under two names, one name with different bytes, a PDF with a file that is
\* no PDF
BatchLists ==
    { l \in { <<>>,
              <<File("a.pdf", "X")>>,
              <<File("a.pdf", "X"), File("b.pdf", "X")>>,
              <<File("a.pdf", "X"), File("a.pdf", "Y")>>,
              <<File("b.pdf", "X"), File("n.txt", "Y")>> } : Len(l) <= MaxBatch }

InitHook ==
    /\ isProcessing = FALSE
    /\ currentResponse = NullResponse
    /\ error = NoError
    /\ uploadedFiles = <<>>
    /\ messageHistory = <<>>
    /\ pdfReady = FALSE
    /\ batches = [b \in 1..MaxBatches |-> IdleBatch]
    /\ queries = [q \in 1..MaxQueries |-> IdleQuery]
    /\ clearing = "none"
    /\ memoryClear = "none"

\* a success check that one successful upload satisfies
allSuccessfulSome(st) == \E i \in 1..Len(st) : st[i] = "ok"

\* responses.every(response => response.success)
allSuccessful(st) == \A i \in 1..Len(st) : st[i] = "ok"

\* Promise.all(uploadPromises) rejects as soon as one upload rejects
AnyRejected(st) == \E i \in 1..Len(st) : st[i] = "reject"

\* Promise.all(uploadPromises) resolves once every upload has resolved
AllResolved(st) == \A i \in 1..Len(st) : st[i] \in {"ok", "fail"}

\* uploadFiles up to `await Promise.all(uploadPromises)`
UploadFilesStart(b) ==
    /\ batches[b].phase = "idle"
    /\ \A c \in 1..(b - 1) : batches[c].phase # "idle"
    /\ \E files \in BatchLists :
          batches' = [batches EXCEPT ![b] =
                         [phase |-> "inflight", files |-> files,
                          st |-> [i \in 1..Len(files) |-> "sent"]]]
    /\ error' = NoError
    /\ isProcessing' = TRUE
    /\ UNCHANGED <<currentResponse, uploadedFiles, messageHistory, pdfReady, queries, clearing>>
    /\ UNCHANGED <<backendVars, chatVars, classifyVars, searchVars, indexVars, otherVars>>

\* an uploadFiles whose catch block does not reset isProcessing
UploadFilesDoneStaysProcessing(b) ==
    /\ batches[b].phase = "inflight"
    /\ \/ /\ AnyRejected(batches[b].st)
          /\ pdfReady' = FALSE
          /\ error' = "Upload rejected"
          /\ UNCHANGED <<uploadedFiles, currentResponse, isProcessing>>
       \/ /\ ~AnyRejected(batches[b].st)
          /\ AllResolved(batches[b].st)
          /\ IF allSuccessful(batches[b].st)
             THEN /\ uploadedFiles' = batches[b].files
                  /\ currentResponse' = NullResponse
                  /\ pdfReady' = TRUE
                  /\ isProcessing' = FALSE
                  /\ UNCHANGED error
             ELSE /\ pdfReady' = FALSE
                  /\ error' = "Some files failed to upload"
                  /\ UNCHANGED <<uploadedFiles, currentResponse, isProcessing>>
    /\ batches' = [batches EXCEPT ![b].phase = "done"]
    /\ UNCHANGED <<messageHistory, queries, clearing>>
    /\ UNCHANGED <<backendVars, chatVars, classifyVars, searchVars, indexVars, otherVars>>

\* an uploadFiles whose catch block leaves pdfReady as it was
UploadFilesDoneKeepsReady(b) ==
    /\ batches[b].phase = "inflight"
    /\ \/ /\ AnyRejected(batches[b].st)
          /\ isProcessing' = FALSE
          /\ error' = "Upload rejected"
          /\ UNCHANGED <<uploadedFiles, currentResponse, pdfReady>>
       \/ /\ ~AnyRejected(batches[b].st)
          /\ AllResolved(batches[b].st)
          /\ IF allSuccessful(batches[b].st)
             THEN /\ uploadedFiles' = batches[b].files
                  /\ currentResponse' = NullResponse
                  /\ pdfReady' = TRUE
                  /\ isProcessing' = FALSE
                  /\ UNCHANGED error
             ELSE /\ isProcessing' = FALSE
                  /\ error' = "Some files failed to upload"
                  /\ UNCHANGED <<uploadedFiles, currentResponse, pdfReady>>
    /\ batches' = [batches EXCEPT ![b].phase = "done"]
    /\ UNCHANGED <<messageHistory, queries, clearing>>
    /\ UNCHANGED <<backendVars, chatVars, classifyVars, searchVars, indexVars, otherVars>>

\* uploadFiles after the await: the success branch or the catch block
UploadFilesDone(b) ==
    /\ batches[b].phase = "inflight"
    /\ \/ /\ AnyRejected(batches[b].st)
          /\ isProcessing' = FALSE
          /\ pdfReady' = FALSE
          /\ error' = "Upload rejected"
          /\ UNCHANGED <<uploadedFiles, currentResponse>>
       \/ /\ ~AnyRejected(batches[b].st)
          /\ AllResolved(batches[b].st)
          /\ IF allSuccessful(batches[b].st)
             THEN /\ uploadedFiles' = batches[b].files
                  /\ currentResponse' = NullResponse
                  /\ pdfReady' = TRUE
                  /\ isProcessing' = FALSE
                  /\ UNCHANGED error
             ELSE /\ isProcessing' = FALSE
                  /\ pdfReady' = FALSE
                  /\ error' = "Some files failed to upload"
                  /\ UNCHANGED <<uploadedFiles, currentResponse>>
    /\ batches' = [batches EXCEPT ![b].phase = "done"]
    /\ UNCHANGED <<messageHistory, queries, clearing>>
    /\ UNCHANGED <<backendVars, chatVars, classifyVars, searchVars, indexVars, otherVars>>

\* processQuery up to `await PDFQAService.agenticQuery(...)`
ProcessQueryStart(q) ==
    /\ queries[q].phase = "idle"
    /\ queries' = [queries EXCEPT ![q] =
                      [phase |-> "inflight", has_pdf |-> pdfReady,
                       message_count |-> Len(messageHistory)]]
    /\ isProcessing' = TRUE
    /\ error' = NoError
    /\ UNCHANGED <<currentResponse, uploadedFiles, messageHistory, pdfReady, batches, clearing>>
    /\ UNCHANGED <<backendVars, chatVars, classifyVars, searchVars, indexVars, otherVars>>

\* a processQuery whose catch block also drops the uploaded files, as the
\* catch block of uploadFiles drops pdfReady
ProcessQueryDoneDropsFiles(q) ==
    /\ queries[q].phase = "inflight"
    /\ \/ \E response \in HookResponses :
            IF response.success
            THEN /\ currentResponse' = response
                 /\ isProcessing' = FALSE
                 /\ UNCHANGED <<error, uploadedFiles, pdfReady>>
            ELSE /\ isProcessing' = FALSE
                 /\ error' = "API returned success: false"
                 /\ uploadedFiles' = <<>>
                 /\ pdfReady' = FALSE
                 /\ UNCHANGED currentResponse
       \/ /\ isProcessing' = FALSE
          /\ error' = "Query rejected"
          /\ uploadedFiles' = <<>>
          /\ pdfReady' = FALSE
          /\ UNCHANGED currentResponse
    /\ queries' = [queries EXCEPT ![q] = IdleQuery]
    /\ UNCHANGED <<messageHistory, batches, clearing>>
    /\ UNCHANGED <<backendVars, chatVars, classifyVars, searchVars, indexVars, otherVars>>

\* a processQuery whose catch block also drops the response kept before
ProcessQueryDoneClearsResponse(q) ==
    /\ queries[q].phase = "inflight"
    /\ \/ \E response \in HookResponses :
            IF response.success
            THEN /\ currentResponse' = response
                 /\ isProcessing' = FALSE
                 /\ UNCHANGED error
            ELSE /\ isProcessing' = FALSE
                 /\ error' = "API returned success: false"
                 /\ currentResponse' = NullResponse
       \/ /\ isProcessing' = FALSE
          /\ error' = "Query rejected"
          /\ currentResponse' = NullResponse
    /\ queries' = [queries EXCEPT ![q] = IdleQuery]
    /\ UNCHANGED <<uploadedFiles, messageHistory, pdfReady, batches, clearing>>
    /\ UNCHANGED <<backendVars, chatVars, classifyVars, searchVars, indexVars, otherVars>>

\* processQuery after the await: the response, or the catch block
ProcessQueryDone(q) ==
    /\ queries[q].phase = "inflight"
    /\ \/ \E response \in HookResponses :
            IF response.success
            THEN /\ currentResponse' = response
                 /\ isProcessing' = FALSE
                 /\ UNCHANGED error
            ELSE /\ isProcessing' = FALSE
                 /\ error' = "API returned success: false"
                 /\ UNCHANGED currentResponse
       \/ /\ isProcessing' = FALSE
          /\ error' = "Query rejected"
          /\ UNCHANGED currentResponse
    /\ queries' = [queries EXCEPT ![q] = IdleQuery]
    /\ UNCHANGED <<uploadedFiles, messageHistory, pdfReady, batches, clearing>>
    /\ UNCHANGED <<backendVars, chatVars, classifyVars, searchVars, indexVars, otherVars>>

\* an addMessage that puts the new message in front of the history
addMessagePrepends(message) ==
    /\ Len(messageHistory) < MaxMessages
    /\ messageHistory' = <<message>> \o messageHistory
    /\ UNCHANGED <<isProcessing, currentResponse, error, uploadedFiles, pdfReady,
                   batches, queries, clearing>>
    /\ UNCHANGED <<backendVars, chatVars, classifyVars, searchVars, indexVars, otherVars>>

\* addMessage
addMessage(message) ==
    /\ Len(messageHistory) < MaxMessages
    /\ messageHistory' = Append(messageHistory, message)
    /\ UNCHANGED <<isProcessing, currentResponse, error, uploadedFiles, pdfReady,
                   batches, queries, clearing>>
    /\ UNCHANGED <<backendVars, chatVars, classifyVars, searchVars, indexVars, otherVars>>

\* clearHistory and reset up to `await fetch('.../api/memory/clear')`
ClearStart ==
    /\ clearing = "none"
    /\ \E kind \in {"clearHistory", "reset"} : clearing' = kind
    /\ UNCHANGED <<isProcessing, currentResponse, error, uploadedFiles, messageHistory,
                   pdfReady, batches, queries>>
    /\ UNCHANGED <<backendVars, chatVars, classifyVars, searchVars, indexVars, otherVars>>

\* the ways the fetch of /api/memory/clear settles: with a response, or
\* with a rejection, which the inner catch block swallows
FetchOutcomes == {"resolved", "rejected"}

\* a clearHistory that gives up when the memory-clear request fails
clearHistoryNeedsBackend ==
    /\ clearing = "clearHistory"
    /\ \E outcome \in FetchOutcomes :
          /\ memoryClear' = outcome
          /\ IF outcome = "resolved"
             THEN /\ messageHistory' = <<>>
                  /\ currentResponse' = NullResponse
                  /\ uploadedFiles' = <<>>
                  /\ pdfReady' = FALSE
             ELSE UNCHANGED <<messageHistory, currentResponse, uploadedFiles, pdfReady>>
    /\ clearing' = "none"
    /\ UNCHANGED <<isProcessing, error, batches, queries>>
    /\ UNCHANGED <<backendVars, chatVars, classifyVars, searchVars, indexVars,
                   compareVars, summarizeVars, sessionVars, displayVars, inputVars>>

\* clearHistory after the fetch, whether it resolved or failed
clearHistory ==
    /\ clearing = "clearHistory"
    /\ \E outcome \in FetchOutcomes : memoryClear' = outcome
    /\ messageHistory' = <<>>
    /\ currentResponse' = NullResponse
    /\ uploadedFiles' = <<>>
    /\ pdfReady' = FALSE
    /\ clearing' = "none"
    /\ UNCHANGED <<isProcessing, error, batches, queries>>
    /\ UNCHANGED <<backendVars, chatVars, classifyVars, searchVars, indexVars,
                   compareVars, summarizeVars, sessionVars, displayVars, inputVars>>

\* reset after the fetch, whether it resolved or failed
reset ==
    /\ clearing = "reset"
    /\ \E outcome \in FetchOutcomes : memoryClear' = outcome
    /\ isProcessing' = FALSE
    /\ currentResponse' = NullResponse
    /\ error' = NoError
    /\ uploadedFiles' = <<>>
    /\ messageHistory' = <<>>
    /\ pdfReady' = FALSE
    /\ clearing' = "none"
    /\ UNCHANGED <<batches, queries>>
    /\ UNCHANGED <<backendVars, chatVars, classifyVars, searchVars, indexVars,
                   compareVars, summarizeVars, sessionVars, displayVars, inputVars>>

\* clearError
clearError ==
    /\ error' = NoError
    /\ UNCHANGED <<isProcessing, currentResponse, uploadedFiles, messageHistory,
                   pdfReady, batches, queries, clearing>>
    /\ UNCHANGED <<backendVars, chatVars, classifyVars, searchVars, indexVars, otherVars>>

\* clearCurrentResponse
clearCurrentResponse ==
    /\ currentResponse' = NullResponse
    /\ UNCHANGED <<isProcessing, error, uploadedFiles, messageHistory,
                   pdfReady, batches, queries, clearing>>
    /\ UNCHANGED <<backendVars, chatVars, classifyVars, searchVars, indexVars, otherVars>>


(***************************************************************************)
(* Texts a user types, and String.prototype.trim                           *)
(***************************************************************************)
MaxText == 2

Chars == {" ", "a"}

IsSpace(c) == c = " "

Texts == UNION {[1..n -> Chars] : n \in 0..MaxText}

\* a trim that strips nothing
trimNothing(t) == t

\* String.prototype.trim: the text without its leading and trailing white space
RECURSIVE trim(_)
trim(t) ==
    IF t = <<>> THEN t
    ELSE IF IsSpace(Head(t)) THEN trim(Tail(t))
    ELSE IF IsSpace(t[Len(t)]) THEN trim(SubSeq(t, 1, Len(t) - 1))
    ELSE t

\* !text.trim()
Blank(t) == trim(t) = <<>>


(***************************************************************************)
(* ChatInterface                                                           *)
(***************************************************************************)
MaxSends == 2
MaxSelected == 2
MaxClicks == 3

Msg(t, c) == [type |-> t, content |-> c]

\* the files an input event carries
PickedLists == UNION {[1..n -> {"a.pdf", "n.txt"}] : n \in 1..MaxSelected}

\* the replies of uploadAndQuery and agenticQuery; category "unknown" is a
\* reply without a category
ChatResponses ==
    { Resp(ok, cat, su, co, an, me, FALSE, 0) :
        ok \in BOOLEAN, cat \in Categories \cup {"unknown"},
        su \in BOOLEAN, co \in BOOLEAN, an \in BOOLEAN, me \in BOOLEAN }

NoPending == [kind |-> "none"]

\* the welcome message of the mount effect
InitChat ==
    /\ messages = <<Msg("bot", "Hi, how can I assist you today?")>>
    /\ selectedFiles = <<>>
    /\ isLoading = FALSE
    /\ chatError = ""
    /\ chatPending = NoPending
    /\ sends = 0
    /\ inputValue = <<>>
    /\ sendClicks = 0

\* handleFileSelect
handleFileSelect ==
    /\ ~isLoading
    /\ \E files \in PickedLists :
         IF \E i \in 1..Len(files) : ~IsPdf(files[i])
         THEN /\ chatError' = "Only PDF files are allowed"
              /\ UNCHANGED selectedFiles
         ELSE /\ Len(selectedFiles) + Len(files) <= MaxSelected
              /\ selectedFiles' = selectedFiles \o files
              /\ chatError' = ""
    /\ UNCHANGED <<messages, isLoading, chatPending, sends>>
    /\ UNCHANGED <<backendVars, hookVars, classifyVars, searchVars, indexVars, otherVars>>

\* removeFile(index)
removeFile ==
    /\ \E index \in 1..Len(selectedFiles) :
         selectedFiles' = SubSeq(selectedFiles, 1, index - 1)
                            \o SubSeq(selectedFiles, index + 1, Len(selectedFiles))
    /\ UNCHANGED <<messages, isLoading, chatError, chatPending, sends>>
    /\ UNCHANGED <<backendVars, hookVars, classifyVars, searchVars, indexVars, otherVars>>

\* the bot message's content for an uploadAndQuery reply
UploadBotContent(r) ==
    IF r.category = "summarization"
    THEN (IF r.summary THEN "summary" ELSE "No summary generated")
    ELSE IF r.category = "comparison"
    THEN (IF r.comparison THEN "comparison" ELSE "No comparison generated")
    ELSE IF r.answer THEN "answer"
    ELSE IF r.message THEN "message"
    ELSE "No answer generated"

\* the bot message's content for an agenticQuery reply
AgenticBotContent(r) ==
    IF r.category = "summarization"
    THEN (IF r.summary THEN "summary" ELSE "No summary generated")
    ELSE IF r.category = "comparison"
    THEN (IF r.comparison THEN "comparison" ELSE "No comparison generated")
    ELSE IF r.category = "rag"
    THEN (IF r.answer THEN "answer" ELSE "No answer generated")
    ELSE IF r.message THEN "message"
    ELSE "No response generated"

ErrorBotMessage == Msg("bot", "Sorry, there was an error processing your request. Please try again.")

\* onChange of the text input, which is disabled while isLoading
setInputValue ==
    /\ ~isLoading
    /\ \E t \in Texts : inputValue' = t
    /\ UNCHANGED sendClicks
    /\ UNCHANGED chatVars
    /\ UNCHANGED <<backendVars, hookVars, classifyVars, searchVars, indexVars,
                   compareVars, summarizeVars, sessionVars, displayVars, clearVars>>

\* a handleSendMessage that does not refuse a blank question about files
SendMessageFilesOnly ==
    /\ ~isLoading
    /\ sends < MaxSends
    /\ sendClicks < MaxClicks
    /\ sendClicks' = sendClicks + 1
    /\ LET messageText == inputValue IN
         IF Blank(messageText) /\ Len(selectedFiles) = 0
         THEN UNCHANGED <<messages, isLoading, chatError, chatPending, sends, inputValue>>
         ELSE /\ messages' = Append(messages, Msg("user", "text"))
              /\ inputValue' = <<>>
              /\ isLoading' = TRUE
              /\ chatError' = ""
              /\ chatPending' = [kind |-> IF Len(selectedFiles) > 0
                                            THEN "uploadAndQuery" ELSE "agenticQuery"]
              /\ sends' = sends + 1
    /\ UNCHANGED selectedFiles
    /\ UNCHANGED <<backendVars, hookVars, classifyVars, searchVars, indexVars,
                   compareVars, summarizeVars, sessionVars, displayVars, clearVars>>

\* handleSubmit: handleSendMessage(inputValue) up to the await.  The input
\* and the send button are disabled while isLoading.
SendMessage ==
    /\ ~isLoading
    /\ sends < MaxSends
    /\ sendClicks < MaxClicks
    /\ sendClicks' = sendClicks + 1
    /\ LET messageText == inputValue IN
         IF Blank(messageText) /\ Len(selectedFiles) = 0
         THEN UNCHANGED <<messages, isLoading, chatError, chatPending, sends, inputValue>>
         ELSE IF Blank(messageText)
         THEN /\ chatError' = "Please ask a question about the uploaded PDF(s)"
              /\ UNCHANGED <<messages, isLoading, chatPending, sends, inputValue>>
         ELSE /\ messages' = Append(messages, Msg("user", "text"))
              /\ inputValue' = <<>>
              /\ isLoading' = TRUE
              /\ chatError' = ""
              /\ chatPending' = [kind |-> IF Len(selectedFiles) > 0
                                            THEN "uploadAndQuery" ELSE "agenticQuery"]
              /\ sends' = sends + 1
    /\ UNCHANGED selectedFiles
    /\ UNCHANGED <<backendVars, hookVars, classifyVars, searchVars, indexVars,
                   compareVars, summarizeVars, sessionVars, displayVars, clearVars>>

\* what handleSendMessage appends once agenticQuery has resolved with r
AgenticAppend(ms, r) ==
    IF r.success THEN Append(ms, Msg("bot", AgenticBotContent(r))) ELSE ms

\* handleSendMessage after uploadAndQuery settled: the reply, or the catch block
UploadAndQueryDone ==
    /\ chatPending.kind = "uploadAndQuery"
    /\ \/ \E r \in ChatResponses :
            IF r.success
            THEN /\ messages' = Append(messages, Msg("bot", UploadBotContent(r)))
                 /\ selectedFiles' = <<>>
                 /\ UNCHANGED chatError
            ELSE /\ chatError' = "Upload and query failed"
                 /\ messages' = Append(messages, ErrorBotMessage)
                 /\ UNCHANGED selectedFiles
       \/ /\ chatError' = "An error occurred"
          /\ messages' = Append(messages, ErrorBotMessage)
          /\ UNCHANGED selectedFiles
    /\ isLoading' = FALSE
    /\ chatPending' = NoPending
    /\ UNCHANGED sends
    /\ UNCHANGED <<backendVars, hookVars, classifyVars, searchVars, indexVars, otherVars>>

\* handleSendMessage after agenticQuery settled: the reply, or the catch block
AgenticQueryDone ==
    /\ chatPending.kind = "agenticQuery"
    /\ \/ /\ \E r \in ChatResponses : messages' = AgenticAppend(messages, r)
          /\ UNCHANGED chatError
       \/ /\ chatError' = "An error occurred"
          /\ messages' = Append(messages, ErrorBotMessage)
    /\ isLoading' = FALSE
    /\ chatPending' = NoPending
    /\ UNCHANGED <<selectedFiles, sends>>
    /\ UNCHANGED <<backendVars, hookVars, classifyVars, searchVars, indexVars, otherVars>>


(***************************************************************************)
(* Query classifier (its code is not among the sources: modelled from the  *)
(* specification's decision policy).                                       *)
(***************************************************************************)
MaxDocs == 2

ClassifyInputs ==
    [comparison_language : BOOLEAN, condensation : BOOLEAN, question : BOOLEAN,
     active_docs : 0..MaxDocs, inline_texts : 0..MaxDocs]

NoClassification == [category |-> "none"]

\* two comparable text blocks: two active documents or two inline texts
TwoBlocks(in) == in.active_docs >= 2 \/ in.inline_texts >= 2

\* a classifier whose summarization rule does not ask for an active document
classifyNoDocumentCheck(in) ==
    IF in.comparison_language /\ TwoBlocks(in) THEN [category |-> "comparison"]
    ELSE IF in.condensation THEN [category |-> "summarization"]
    ELSE IF in.active_docs >= 1 /\ in.question THEN [category |-> "retrieval_qa"]
    ELSE [category |-> "chat"]

classify(in) ==
    IF in.comparison_language /\ TwoBlocks(in) THEN [category |-> "comparison"]
    ELSE IF in.condensation /\ in.active_docs >= 1 THEN [category |-> "summarization"]
    ELSE IF in.active_docs >= 1 /\ in.question THEN [category |-> "retrieval_qa"]
    ELSE [category |-> "chat"]

Classify ==
    /\ clsOut = NoClassification
    /\ clsOut' = classify(clsIn)
    /\ UNCHANGED clsIn
    /\ UNCHANGED <<backendVars, hookVars, chatVars, searchVars, indexVars, otherVars>>

(***************************************************************************)
(* Index search (the ranking is the retriever's; modelled from the         *)
(* specification).  An index is the sequence of its chunks' similarities   *)
(* to the query, by chunk ordinal; k = 0 stands for no k given.            *)
(***************************************************************************)
MaxChunks == 6
MaxScore == 2
MaxK == 7

SearchInputs ==
    { [sims |-> s, k |-> k] :
        s \in UNION {[1..n -> 0..MaxScore] : n \in 0..MaxChunks}, k \in 0..MaxK }

NoSearch == [done |-> FALSE, hits |-> <<>>]

\* chunk i ranks before chunk j
Before(sims, i, j) == sims[i] > sims[j] \/ (sims[i] = sims[j] /\ i <= j)

Best(sims, S) == CHOOSE i \in S : \A j \in S : Before(sims, i, j)

RECURSIVE Rank(_, _, _)
Rank(sims, S, k) ==
    IF k = 0 \/ S = {} THEN <<>>
    ELSE LET b == Best(sims, S)
         IN <<[ordinal |-> b, score |-> sims[b]]>> \o Rank(sims, S \ {b}, k - 1)

EffectiveK(k) == IF k = 0 THEN DefaultK ELSE k

search(sims, k) == Rank(sims, DOMAIN sims, EffectiveK(k))

Search ==
    /\ ~searchOut.done
    /\ searchOut' = [done |-> TRUE, hits |-> search(searchIn.sims, searchIn.k)]
    /\ UNCHANGED searchIn
    /\ UNCHANGED <<backendVars, hookVars, chatVars, classifyVars, indexVars, otherVars>>

(***************************************************************************)
(* Index manager (modelled from the specification): get_or_build           *)
(***************************************************************************)
MaxRequests == 3

IndexHashes == {"X", "Y", "Z"}

\* a request names its documents as a list of distinct hashes
DocLists ==
    { l \in UNION {[1..n -> IndexHashes] : n \in 1..3} :
        \A i, j \in 1..Len(l) : i # j => l[i] # l[j] }

NoIndex == [req |-> <<>>, key |-> {}, id |-> 0]

InitIndex ==
    /\ indexCache = {}
    /\ buildLog = <<>>
    /\ lastIndex = NoIndex
    /\ requests = 0

\* a cache key that keeps the order of the request's list
IndexKeyOrdered(docs) == docs

\* the cache key of a request
IndexKey(docs) == Range(docs)

get_or_build(docs) ==
    LET key == IndexKey(docs)
        hit == {ix \in indexCache : ix.key = key}
    IN  IF hit # {}
        THEN /\ lastIndex' = [(CHOOSE ix \in hit : TRUE) EXCEPT !.req = docs]
             /\ UNCHANGED <<indexCache, buildLog>>
        ELSE LET ix == [req |-> docs, key |-> key, id |-> Len(buildLog) + 1]
             IN /\ indexCache' = indexCache \cup {ix}
                /\ buildLog' = Append(buildLog, docs)
                /\ lastIndex' = ix

GetOrBuild ==
    /\ requests < MaxRequests
    /\ requests' = requests + 1
    /\ \E docs \in DocLists : get_or_build(docs)
    /\ UNCHANGED <<backendVars, hookVars, chatVars, classifyVars, searchVars, otherVars>>

(***************************************************************************)
(* Compare and Summarize pages.  A text is a sequence of characters.       *)
(***************************************************************************)
MaxCompares == 2
MaxSummaries == 2

CompareTypes == {"similarities", "differences", "comprehensive"}

SummaryTypes == {"brief", "detailed", "bullet_points", "micro", "audience"}

Audiences == {"general", "professional"}

\* the text a successful generation reply carries: not empty
GeneratedTexts == {<<"a">>, <<"a", "a">>}

NoCall == [kind |-> "none"]

InitCompare ==
    /\ text1 = <<>> /\ text2 = <<>>
    /\ compareType = "comprehensive"
    /\ comparison = <<>>
    /\ compareIsLoading = FALSE
    /\ compareToast = ""
    /\ comparePending = NoCall
    /\ compareClicks = 0
    /\ compareCalls = 0

InitSummarize ==
    /\ inputText = <<>>
    /\ summaryType = "brief"
    /\ audience = "general"
    /\ summary = <<>>
    /\ summarizeIsLoading = FALSE
    /\ summarizeToast = ""
    /\ summarizePending = NoCall
    /\ summarizeClicks = 0
    /\ summarizeCalls = 0

InitPages == InitCompare /\ InitSummarize

\* the text areas and the type buttons of the Compare page
setText1 ==
    /\ \E t \in Texts : text1' = t
    /\ UNCHANGED <<text2, compareType, comparison, compareIsLoading, compareToast,
                   comparePending, compareClicks, compareCalls>>
    /\ UNCHANGED <<backendVars, hookVars, chatVars, classifyVars, searchVars, indexVars,
                   summarizeVars, sessionVars, displayVars, clearVars, inputVars>>

setText2 ==
    /\ \E t \in Texts : text2' = t
    /\ UNCHANGED <<text1, compareType, comparison, compareIsLoading, compareToast,
                   comparePending, compareClicks, compareCalls>>
    /\ UNCHANGED <<backendVars, hookVars, chatVars, classifyVars, searchVars, indexVars,
                   summarizeVars, sessionVars, displayVars, clearVars, inputVars>>

setCompareType ==
    /\ \E m \in CompareTypes : compareType' = m
    /\ UNCHANGED <<text1, text2, comparison, compareIsLoading, compareToast,
                   comparePending, compareClicks, compareCalls>>
    /\ UNCHANGED <<backendVars, hookVars, chatVars, classifyVars, searchVars, indexVars,
                   summarizeVars, sessionVars, displayVars, clearVars, inputVars>>

\* a handleCompare that asks for both fields only when both are blank
handleCompareBothBlank ==
    /\ ~compareIsLoading
    /\ compareClicks < MaxCompares
    /\ compareClicks' = compareClicks + 1
    /\ IF Blank(text1) /\ Blank(text2)
       THEN /\ compareToast' = "Please enter text in both fields to compare"
            /\ UNCHANGED <<compareIsLoading, comparePending, compareCalls>>
       ELSE /\ compareIsLoading' = TRUE
            /\ comparePending' = [kind |-> "compareTexts", text1 |-> text1,
                                  text2 |-> text2, compareType |-> compareType]
            /\ compareCalls' = compareCalls + 1
            /\ UNCHANGED compareToast
    /\ UNCHANGED <<text1, text2, compareType, comparison>>
    /\ UNCHANGED <<backendVars, hookVars, chatVars, classifyVars, searchVars, indexVars,
                   summarizeVars, sessionVars, displayVars, clearVars, inputVars>>

\* handleCompare up to `await PDFQAService.compareTexts(...)`.  The button
\* that calls it is disabled while isLoading; the handler is taken as called
\* also with blank fields, the case its first check is written for.
handleCompare ==
    /\ ~compareIsLoading
    /\ compareClicks < MaxCompares
    /\ compareClicks' = compareClicks + 1
    /\ IF Blank(text1) \/ Blank(text2)
       THEN /\ compareToast' = "Please enter text in both fields to compare"
            /\ UNCHANGED <<compareIsLoading, comparePending, compareCalls>>
       ELSE /\ compareIsLoading' = TRUE
            /\ comparePending' = [kind |-> "compareTexts", text1 |-> text1,
                                  text2 |-> text2, compareType |-> compareType]
            /\ compareCalls' = compareCalls + 1
            /\ UNCHANGED compareToast
    /\ UNCHANGED <<text1, text2, compareType, comparison>>
    /\ UNCHANGED <<backendVars, hookVars, chatVars, classifyVars, searchVars, indexVars,
                   summarizeVars, sessionVars, displayVars, clearVars, inputVars>>

\* handleCompare after the await: the reply, {success: false} or a rejection
handleCompareDone ==
    /\ comparePending # NoCall
    /\ \/ \E c \in GeneratedTexts :
            /\ comparison' = c
            /\ compareToast' = "Text comparison completed successfully"
       \/ /\ compareToast' = "Failed to compare texts. Please try again."
          /\ UNCHANGED comparison
    /\ compareIsLoading' = FALSE
    /\ comparePending' = NoCall
    /\ UNCHANGED <<text1, text2, compareType, compareClicks, compareCalls>>
    /\ UNCHANGED <<backendVars, hookVars, chatVars, classifyVars, searchVars, indexVars,
                   summarizeVars, sessionVars, displayVars, clearVars, inputVars>>

\* the text area and the option buttons of the Summarize page
setInputText ==
    /\ \E t \in Texts : inputText' = t
    /\ UNCHANGED <<summaryType, audience, summary, summarizeIsLoading, summarizeToast,
                   summarizePending, summarizeClicks, summarizeCalls>>
    /\ UNCHANGED <<backendVars, hookVars, chatVars, classifyVars, searchVars, indexVars,
                   compareVars, sessionVars, displayVars, clearVars, inputVars>>

setSummaryType ==
    /\ \E st \in SummaryTypes : summaryType' = st
    /\ UNCHANGED <<inputText, audience, summary, summarizeIsLoading, summarizeToast,
                   summarizePending, summarizeClicks, summarizeCalls>>
    /\ UNCHANGED <<backendVars, hookVars, chatVars, classifyVars, searchVars, indexVars,
                   compareVars, sessionVars, displayVars, clearVars, inputVars>>

setAudience ==
    /\ \E a \in Audiences : audience' = a
    /\ UNCHANGED <<inputText, summaryType, summary, summarizeIsLoading, summarizeToast,
                   summarizePending, summarizeClicks, summarizeCalls>>
    /\ UNCHANGED <<backendVars, hookVars, chatVars, classifyVars, searchVars, indexVars,
                   compareVars, sessionVars, displayVars, clearVars, inputVars>>

\* handleSummarize up to `await PDFQAService.summarizeText(...)`; the audience
\* is sent only with the type "audience".  The button that calls it is
\* disabled while isLoading; the handler is taken as called also with a blank
\* text, the case its first check is written for.
handleSummarize ==
    /\ ~summarizeIsLoading
    /\ summarizeClicks < MaxSummaries
    /\ summarizeClicks' = summarizeClicks + 1
    /\ IF Blank(inputText)
       THEN /\ summarizeToast' = "Please enter text to summarize"
            /\ UNCHANGED <<summarizeIsLoading, summarizePending, summarizeCalls>>
       ELSE /\ summarizeIsLoading' = TRUE
            /\ summarizePending' =
                 [kind |-> "summarizeText", text |-> inputText, summaryType |-> summaryType,
                  audience |-> IF summaryType = "audience" THEN audience ELSE "undefined"]
            /\ summarizeCalls' = summarizeCalls + 1
            /\ UNCHANGED summarizeToast
    /\ UNCHANGED <<inputText, summaryType, audience, summary>>
    /\ UNCHANGED <<backendVars, hookVars, chatVars, classifyVars, searchVars, indexVars,
                   compareVars, sessionVars, displayVars, clearVars, inputVars>>

\* handleSummarize after the await: the reply, {success: false} or a rejection
handleSummarizeDone ==
    /\ summarizePending # NoCall
    /\ \/ \E t \in GeneratedTexts :
            /\ summary' = t
            /\ summarizeToast' = "Summary generated successfully"
       \/ /\ summarizeToast' = "Failed to generate summary. Please try again."
          /\ UNCHANGED summary
    /\ summarizeIsLoading' = FALSE
    /\ summarizePending' = NoCall
    /\ UNCHANGED <<inputText, summaryType, audience, summarizeClicks, summarizeCalls>>
    /\ UNCHANGED <<backendVars, hookVars, chatVars, classifyVars, searchVars, indexVars,
                   compareVars, sessionVars, displayVars, clearVars, inputVars>>

(***************************************************************************)
(* Session of the request handlers: every request, when it completes,      *)
(* appends its user message and its assistant message.  The handlers are   *)
(* not part of the sources; this is the written specification's session.   *)
(***************************************************************************)
MaxSessionRequests == 4

SessionMsg(role, id, content) == [role |-> role, request |-> id, content |-> content]

InitSession ==
    /\ sessionMessages = <<>>
    /\ sessionInFlight = {}
    /\ sessionIssued = 0
    /\ sessionCompleted = <<>>

\* a session that keeps its messages in the order the requests were issued
AppendExchangeByIssue(ms, id, reply) ==
    LET earlier == SelectSeq(ms, LAMBDA m : m.request < id)
        later   == SelectSeq(ms, LAMBDA m : m.request > id)
    IN earlier \o <<SessionMsg("user", id, "query"), SessionMsg("assistant", id, reply)>>
               \o later

\* the two messages of a request, appended at the end
AppendExchange(ms, id, reply) ==
    ms \o <<SessionMsg("user", id, "query"), SessionMsg("assistant", id, reply)>>

\* a caller issues a request; the handler runs up to its suspension point
IssueRequest ==
    /\ sessionIssued < MaxSessionRequests
    /\ sessionIssued' = sessionIssued + 1
    /\ sessionInFlight' = sessionInFlight \cup {sessionIssued + 1}
    /\ UNCHANGED <<sessionMessages, sessionCompleted>>
    /\ UNCHANGED <<backendVars, hookVars, chatVars, classifyVars, searchVars, indexVars,
                   compareVars, summarizeVars, displayVars, clearVars, inputVars>>

\* a request completes, successfully or not
CompleteRequest(id) ==
    /\ id \in sessionInFlight
    /\ sessionInFlight' = sessionInFlight \ {id}
    /\ \E reply \in {"result", "error"} :
          sessionMessages' = AppendExchange(sessionMessages, id, reply)
    /\ sessionCompleted' = Append(sessionCompleted, id)
    /\ UNCHANGED sessionIssued
    /\ UNCHANGED <<backendVars, hookVars, chatVars, classifyVars, searchVars, indexVars,
                   compareVars, summarizeVars, displayVars, clearVars, inputVars>>

(***************************************************************************)
(* AgenticResponseDisplay                                                  *)
(***************************************************************************)
\* the props: a response or null, isLoading, error (TRUE: a message is set)
DisplayProps ==
    { [response |-> r, isLoading |-> l, error |-> e] :
        r \in { Resp(ok, cat, su, co, an, me, rd, n) :
                  ok \in BOOLEAN, cat \in Categories, su \in BOOLEAN, co \in BOOLEAN,
                  an \in BOOLEAN, me \in BOOLEAN, rd \in BOOLEAN, n \in {0, 2} }
               \cup {NullResponse},
        l \in BOOLEAN, e \in BOOLEAN }

NothingShown == [done |-> FALSE, view |-> "", content |-> ""]

IdleDisplay ==
    /\ displayProps = [response |-> NullResponse, isLoading |-> FALSE, error |-> FALSE]
    /\ displayShown = NothingShown

\* the text of a field, or nothing when the field is not set
FieldText(set, name) == IF set THEN name ELSE ""

\* renderResult: the switch on response.category
renderResult(response) ==
    IF response.category = "summarization"
    THEN [done |-> TRUE, view |-> "Summary",
          content |-> FieldText(response.summary, "summary")]
    ELSE IF response.category = "comparison"
    THEN [done |-> TRUE, view |-> "Comparison Result",
          content |-> FieldText(response.comparison, "comparison")]
    ELSE IF response.category = "rag"
    THEN (IF response.requires_document
          THEN [done |-> TRUE, view |-> "Document Required",
                content |-> FieldText(response.message, "message")]
          ELSE [done |-> TRUE, view |-> "Document Answer",
                content |-> IF response.answer THEN "answer"
                            ELSE FieldText(response.message, "message")])
    ELSE [done |-> TRUE, view |-> "Response", content |-> "JSON.stringify(result)"]

\* the component: the spinner, the error card, nothing, or the result
AgenticResponseDisplay(props) ==
    IF props.isLoading
    THEN [done |-> TRUE, view |-> "Processing your query...", content |-> ""]
    ELSE IF props.error
    THEN [done |-> TRUE, view |-> "Error", content |-> "error"]
    ELSE IF props.response = NullResponse
    THEN [done |-> TRUE, view |-> "null", content |-> ""]
    ELSE renderResult(props.response)

Render ==
    /\ ~displayShown.done
    /\ displayShown' = AgenticResponseDisplay(displayProps)
    /\ UNCHANGED displayProps
    /\ UNCHANGED <<backendVars, hookVars, chatVars, classifyVars, searchVars, indexVars,
                   compareVars, summarizeVars, sessionVars, clearVars, inputVars>>

(***************************************************************************)
(* Specifications                                                          *)
(***************************************************************************)
IdleClassify == clsIn = CHOOSE in \in ClassifyInputs : TRUE

IdleSearch == searchIn = [sims |-> <<>>, k |-> 0]

Init ==
    /\ InitBackend /\ InitHook /\ InitChat /\ InitIndex /\ InitPages
    /\ InitSession /\ IdleDisplay
    /\ IdleClassify /\ clsOut = NoClassification
    /\ IdleSearch /\ searchOut = NoSearch

\* the upload path: uploadFiles of the hook and /upload of the backend
NextUpload ==
    \/ \E b \in 1..MaxBatches : UploadFilesStart(b)
    \/ \E b \in 1..MaxBatches, i \in 1..MaxBatch : UploadReceive(b, i)
    \/ \E b \in 1..MaxBatches, i \in 1..MaxBatch : UploadProcess(b, i)
    \/ \E b \in 1..MaxBatches : UploadFilesDone(b)

NextClear ==
    \/ ClearStart
    \/ clearHistory
    \/ reset

NextQuery ==
    \/ \E q \in 1..MaxQueries : ProcessQueryStart(q)
    \/ \E q \in 1..MaxQueries : ProcessQueryDone(q)

\* upload batches and clears
Next ==
    \/ NextUpload
    \/ NextClear

Spec == Init /\ [][Next]_vars

\* upload batches, clears and queries
NextSession ==
    \/ NextUpload
    \/ NextClear
    \/ NextQuery

SpecSession == Init /\ [][NextSession]_vars

\* the backend's two endpoints under concurrent upload batches
NextBackend ==
    \/ NextUpload
    \/ AskQuestion

SpecBackend == Init /\ [][NextBackend]_vars

\* every operation of the hook, one upload batch at a time
NextHook ==
    \/ UploadFilesStart(1)
    \/ \E i \in 1..MaxBatch : UploadReceive(1, i)
    \/ \E i \in 1..MaxBatch : UploadProcess(1, i)
    \/ UploadFilesDone(1)
    \/ NextQuery
    \/ NextClear
    \/ \E t \in {"user", "assistant"} : addMessage(Msg(t, "text"))
    \/ clearError
    \/ clearCurrentResponse

SpecHook == Init /\ [][NextHook]_vars

\* ChatInterface
NextChat ==
    \/ setInputValue
    \/ handleFileSelect
    \/ removeFile
    \/ SendMessage
    \/ UploadAndQueryDone
    \/ AgenticQueryDone

SpecChat == Init /\ [][NextChat]_vars

\* classifier
InitClassify ==
    /\ InitBackend /\ InitHook /\ InitChat /\ InitIndex /\ InitPages
    /\ InitSession /\ IdleDisplay
    /\ clsIn \in ClassifyInputs /\ clsOut = NoClassification
    /\ IdleSearch /\ searchOut = NoSearch

SpecClassify == InitClassify /\ [][Classify]_vars

\* index search
InitSearch ==
    /\ InitBackend /\ InitHook /\ InitChat /\ InitIndex /\ InitPages
    /\ InitSession /\ IdleDisplay
    /\ IdleClassify /\ clsOut = NoClassification
    /\ searchIn \in SearchInputs /\ searchOut = NoSearch

SpecSearch == InitSearch /\ [][Search]_vars

\* Compare page
NextCompare ==
    \/ setText1
    \/ setText2
    \/ setCompareType
    \/ handleCompare
    \/ handleCompareDone

SpecCompare == Init /\ [][NextCompare]_vars

\* Summarize page
NextSummarize ==
    \/ setInputText
    \/ setSummaryType
    \/ setAudience
    \/ handleSummarize
    \/ handleSummarizeDone

SpecSummarize == Init /\ [][NextSummarize]_vars

\* session of the request handlers
NextSessionRequests ==
    \/ IssueRequest
    \/ \E id \in 1..MaxSessionRequests : CompleteRequest(id)

SpecSessionRequests == Init /\ [][NextSessionRequests]_vars

\* response display
InitDisplay ==
    /\ InitBackend /\ InitHook /\ InitChat /\ InitIndex /\ InitPages /\ InitSession
    /\ IdleClassify /\ clsOut = NoClassification
    /\ IdleSearch /\ searchOut = NoSearch
    /\ displayProps \in DisplayProps /\ displayShown = NothingShown

SpecDisplay == InitDisplay /\ [][Render]_vars

\* the requests of the hook and of ChatInterface, each with the scheduling
\* the event loop gives it: a service call that is pending settles, and the
\* continuation of a settled call runs.  The hook and ChatInterface share no
\* state (ChatInterface calls the service itself), so a behaviour exercises
\* one of the two.
NextProcessingHook ==
    /\ InitChat
    /\ \/ UploadFilesStart(1)
       \/ \E i \in 1..MaxBatch : UploadReceive(1, i)
       \/ \E i \in 1..MaxBatch : UploadProcess(1, i)
       \/ UploadFilesDone(1)
       \/ NextQuery

NextProcessingChat == InitHook /\ NextChat

NextProcessing ==
    \/ NextProcessingHook
    \/ NextProcessingChat

FairProcessing ==
    /\ \A i \in 1..MaxBatch : WF_vars(UploadReceive(1, i))
    /\ \A i \in 1..MaxBatch : WF_vars(UploadProcess(1, i))
    /\ WF_vars(UploadFilesDone(1))
    /\ \A q \in 1..MaxQueries : WF_vars(ProcessQueryDone(q))
    /\ WF_vars(UploadAndQueryDone)
    /\ WF_vars(AgenticQueryDone)

SpecProcessing == Init /\ [][NextProcessing]_vars /\ FairProcessing

\* the hook with requests that are issued only before a clearHistory or
\* reset has completed: whatever completes after the clear was issued
\* before it.  The batch uploads at least one file.
NextStale ==
    \/ memoryClear = "none" /\ UploadFilesStart(1) /\ batches'[1].files # <<>>
    \/ \E i \in 1..MaxBatch : UploadReceive(1, i)
    \/ \E i \in 1..MaxBatch : UploadProcess(1, i)
    \/ UploadFilesDone(1)
    \/ memoryClear = "none" /\ (\E q \in 1..MaxQueries : ProcessQueryStart(q))
    \/ \E q \in 1..MaxQueries : ProcessQueryDone(q)
    \/ NextClear

SpecStale == Init /\ [][NextStale]_vars

\* index manager
SpecIndex == Init /\ [][GetOrBuild]_vars


(***************************************************************************)
(* Properties                                                              *)
(***************************************************************************)
\* the contents (content hashes) some vector store holds: the ready documents
ReadyContents == {vector_stores[n] : n \in DOMAIN vector_stores}

Requests == {<<b, i>> \in (1..MaxBatches) \X (1..MaxBatch) : i <= Len(batches[b].files)}

FileOf(r) == batches[r[1]].files[r[2]]

StateOf(r) == batches[r[1]].st[r[2]]

\* request r leaves upload_pdf's processing in this step
Processed(r) == StateOf(r) = "read" /\ batches'[r[1]].st[r[2]] # "read"

\* C1: ingesting bytes whose content hash belongs to a ready document is a
\* cache hit: the step runs no embedding and changes no store; the pipeline
\* runs only for the first ingest of a hash.
C1_ReingestIsReused ==
    [][\A r \in Requests :
          (Processed(r) /\ FileOf(r).content \in ReadyContents)
             => (embedRuns' = embedRuns /\ vector_stores' = vector_stores)]_vars

\* C2: a document's identity is its content hash: every content whose upload
\* succeeded stays retrievable, also after an upload of other bytes under the
\* same filename, and identical bytes under two filenames are one document.
C2_IdentityIsContentHash ==
    /\ \A r \in Requests : StateOf(r) = "ok" => FileOf(r).content \in ReadyContents
    /\ \A n1, n2 \in DOMAIN vector_stores :
          vector_stores[n1] = vector_stores[n2] => n1 = n2

\* C3: two concurrent ingests of the same content hash (two uploads of one
\* batch, with no other batch issued) run the embedding pipeline once for
\* that hash, and two ingests of different hashes that have both been read
\* can both go on.
C3_SameHashEmbedsOnce ==
    /\ \A r1, r2 \in Requests :
          ( /\ r1[1] = r2[1] /\ r1[2] < r2[2]
            /\ FileOf(r1).content = FileOf(r2).content
            /\ StateOf(r1) = "ok" /\ StateOf(r2) = "ok"
            /\ \A b \in 1..MaxBatches : b # r1[1] => batches[b].phase = "idle" )
          => embedRuns[FileOf(r1).content] = 1
    /\ \A r1, r2 \in Requests :
          ( /\ FileOf(r1).content # FileOf(r2).content
            /\ StateOf(r1) = "read" /\ StateOf(r2) = "read" )
          => (ENABLED UploadProcess(r1[1], r1[2]) /\ ENABLED UploadProcess(r2[1], r2[2]))

\* C4: every document of the active-document set is ready, in every reachable
\* state: each file of uploadedFiles was ingested by an upload that succeeded
\* and has a vector store /ask can retrieve from.
C4_ActiveAreReady ==
    \A i \in 1..Len(uploadedFiles) :
        /\ uploadedFiles[i].name \in DOMAIN vector_stores
        /\ \E r \in Requests : FileOf(r) = uploadedFiles[i] /\ StateOf(r) = "ok"

\* C4 witness: a failed batch after a successful one, the earlier documents active
C4_Witness ==
    /\ Len(uploadedFiles) > 0
    /\ error = "Some files failed to upload"
    /\ \E b \in 1..MaxBatches :
          batches[b].phase = "done" /\ \E i \in 1..Len(batches[b].st) : batches[b].st[i] = "fail"

\* batch b completes on uploadFiles' success branch in this step
CompletesOk(b) ==
    /\ batches[b].phase = "inflight" /\ batches'[b].phase = "done"
    /\ allSuccessful(batches[b].st)

\* file f was ingested by a batch that has completed
IngestedEarlier(f) ==
    \E b \in 1..MaxBatches : \E i \in 1..Len(batches[b].files) :
        batches[b].phase = "done" /\ batches[b].files[i] = f /\ batches[b].st[i] = "ok"

\* C5: a batch that completes successfully makes its files the active set,
\* and the documents of earlier batches stay cached: re-uploading one is a
\* cache hit, which runs no embedding.
C5_BatchReplacesActiveKeepsCache ==
    [][ /\ \A b \in 1..MaxBatches : CompletesOk(b) => uploadedFiles' = batches[b].files
        /\ \A r \in Requests :
              (Processed(r) /\ IngestedEarlier(FileOf(r))) => embedRuns' = embedRuns ]_vars

\* C6: every request handleSendMessage has submitted and finished has added
\* one user message followed by one assistant message.
C6_UserThenAssistant ==
    chatPending.kind = "none" =>
        /\ Len(messages) = 1 + 2 * sends
        /\ \A k \in 1..sends :
              2 * k + 1 <= Len(messages) =>
                 (messages[2 * k].type = "user" /\ messages[2 * k + 1].type = "bot")

\* C7: a retrieval query with no document uploaded is answered with
\* success=true, a "document required" result and no citations, never with
\* an error.
C7_NoDocumentIsNotAnError ==
    (askResp.called /\ askResp.stores = 0) =>
        /\ askResp.success
        /\ askResp.status = 200
        /\ askResp.requires_document
        /\ askResp.sources = 0


\* C8: the category is the first match of the priority order comparison,
\* summarization, retrieval_qa, chat; with no active document and fewer than
\* two text blocks it is never summarization or comparison.
C8_ClassifyPriority ==
    clsOut # NoClassification =>
        LET cat == clsOut.category
            cmp == clsIn.comparison_language
                     /\ (clsIn.active_docs >= 2 \/ clsIn.inline_texts >= 2)
            sum == clsIn.condensation /\ clsIn.active_docs >= 1
            qa  == clsIn.active_docs >= 1 /\ clsIn.question
        IN  /\ cmp => cat = "comparison"
            /\ (~cmp /\ sum) => cat = "summarization"
            /\ (~cmp /\ ~sum /\ qa) => cat = "retrieval_qa"
            /\ (~cmp /\ ~sum /\ ~qa) => cat = "chat"
            /\ (clsIn.active_docs = 0 /\ clsIn.inline_texts < 2)
                  => cat \notin {"summarization", "comparison"}

\* C8 witness: comparison and condensation language, a question, no active
\* document and one inline text: classified chat
C8_Witness ==
    /\ clsOut # NoClassification
    /\ clsIn.comparison_language /\ clsIn.condensation /\ clsIn.question
    /\ clsIn.active_docs = 0 /\ clsIn.inline_texts = 1
    /\ clsOut.category = "chat"

\* C9: search returns min(k, number of chunks) chunks, by descending
\* similarity and, among equals, ascending ordinal; no chunk left out is more
\* similar than a returned one; without a k it returns up to 5.
C9_SearchTopK ==
    searchOut.done =>
        LET hits == searchOut.hits
            sims == searchIn.sims
            n == Len(sims)
            k == IF searchIn.k = 0 THEN 5 ELSE searchIn.k
            returned == {hits[i].ordinal : i \in 1..Len(hits)}
        IN  /\ Len(hits) = (IF k <= n THEN k ELSE n)
            /\ \A i \in 1..Len(hits) :
                  hits[i].ordinal \in 1..n /\ hits[i].score = sims[hits[i].ordinal]
            /\ \A i, j \in 1..Len(hits) :
                  i < j => \/ hits[i].score > hits[j].score
                           \/ (hits[i].score = hits[j].score /\ hits[i].ordinal < hits[j].ordinal)
            /\ \A c \in (1..n) \ returned : \A i \in 1..Len(hits) : sims[c] <= hits[i].score

\* C9 witness: no k given, more than 5 chunks, a tie among the returned chunks
\* and a chunk left out that is as similar as the last one returned
C9_Witness ==
    /\ searchOut.done
    /\ searchIn.k = 0
    /\ Len(searchIn.sims) > 5
    /\ Len(searchOut.hits) = 5
    /\ searchOut.hits[1].score = searchOut.hits[2].score
    /\ \E c \in 1..Len(searchIn.sims) :
          /\ \A i \in 1..5 : searchOut.hits[i].ordinal # c
          /\ searchIn.sims[c] = searchOut.hits[5].score

C11_OnlyCompleteIndexVisible ==
    /\ \A n \in DOMAIN vector_stores :
          \E r \in Requests :
              /\ FileOf(r).name = n /\ FileOf(r).content = vector_stores[n]
              /\ StateOf(r) = "ok"
    /\ (askResp.called /\ askResp.status = 200) =>
          /\ askResp.sources = Min(DefaultK, NumChunks(askResp.served))
          /\ \E r \in Requests :
                /\ FileOf(r).name = askResp.filename /\ FileOf(r).content = askResp.served
                /\ StateOf(r) = "ok"

\* C11 witness: /ask answered from the earlier store of a file while a new
\* upload of that filename is between its read and its processing
C11_Witness ==
    /\ askResp.called /\ askResp.status = 200
    /\ \E r \in Requests :
          /\ StateOf(r) = "read" /\ FileOf(r).name = askResp.filename
          /\ FileOf(r).content # askResp.served

ClearedSince(f) ==
    /\ uploadedFiles = <<>>
    /\ \E b \in 1..MaxBatches :
          /\ batches[b].phase = "done" /\ allSuccessful(batches[b].st)
          /\ \E i \in 1..Len(batches[b].files) : batches[b].files[i] = f

\* C13: clearing the session empties the message history and the active
\* set and leaves every cached document and index unchanged, so that
\* uploading the same bytes again afterwards is a cache hit: no embedding runs.
C13_ClearKeepsCache ==
    [][ /\ (clearing = "clearHistory" /\ clearing' = "none")
              => /\ messageHistory' = <<>> /\ uploadedFiles' = <<>>
                 /\ vector_stores' = vector_stores /\ uploaded_files' = uploaded_files
        /\ \A r \in Requests :
              (Processed(r) /\ ClearedSince(FileOf(r))) => embedRuns' = embedRuns ]_vars

\* a text that is empty or holds white space only
OnlyWhitespace(t) == \A i \in 1..Len(t) : t[i] = " "

\* C14: compare with an input that is empty or blank fails with the
\* insufficient-input error and calls no generation service (no request is
\* issued and the comparison shown stays as it was); with two non-blank
\* inputs the request goes out under one of the three modes, and a comparison
\* that comes back for it is not empty.
C14_CompareNeedsTwoInputs ==
    [][ /\ (compareClicks' # compareClicks /\ (OnlyWhitespace(text1) \/ OnlyWhitespace(text2)))
              => /\ compareToast' = "Please enter text in both fields to compare"
                 /\ compareCalls' = compareCalls
                 /\ comparePending' = NoCall
                 /\ comparison' = comparison
        /\ (compareClicks' # compareClicks /\ ~OnlyWhitespace(text1) /\ ~OnlyWhitespace(text2))
              => /\ compareCalls' = compareCalls + 1
                 /\ comparePending'.kind = "compareTexts"
                 /\ comparePending'.text1 = text1 /\ comparePending'.text2 = text2
                 /\ comparePending'.compareType \in {"similarities", "differences", "comprehensive"}
        /\ (comparePending # NoCall /\ comparePending' = NoCall
               /\ compareToast' = "Text comparison completed successfully")
              => /\ comparison' # <<>>
                 /\ ~OnlyWhitespace(comparePending.text1)
                 /\ ~OnlyWhitespace(comparePending.text2) ]_vars

\* C14 witness: after a comparison of two texts under "similarities" has
\* succeeded, a compare with a white-space first text has been refused
C14_Witness ==
    /\ compareClicks = 2 /\ compareCalls = 1
    /\ comparison # <<>>
    /\ compareType = "similarities"
    /\ text1 = <<" ">> /\ text2 = <<"a">>
    /\ compareToast = "Please enter text in both fields to compare"

\* C15: summarize with a text that is empty or white space only fails with
\* the empty-input error under every summary style: no generation request is
\* issued and the summary shown before stays as it was.
C15_SummarizeNeedsText ==
    [][ (summarizeClicks' # summarizeClicks /\ OnlyWhitespace(inputText))
           => /\ summarizeToast' = "Please enter text to summarize"
              /\ summarizeCalls' = summarizeCalls
              /\ summarizePending' = NoCall
              /\ summarizeIsLoading' = summarizeIsLoading
              /\ summary' = summary ]_vars

\* C15 witness: a summary is shown, and a summarize of a white-space text
\* under the "audience" style has been refused
C15_Witness ==
    /\ summarizeClicks = 2 /\ summarizeCalls = 1
    /\ summary # <<>>
    /\ summaryType = "audience"
    /\ inputText = <<" ", " ">>
    /\ summarizeToast = "Please enter text to summarize"

C17_AbandonedQueryIsNoOp ==
    [][ queries' # queries
          => /\ messageHistory' = messageHistory
             /\ uploadedFiles' = uploadedFiles
             /\ pdfReady' = pdfReady
             /\ vector_stores' = vector_stores
             /\ uploaded_files' = uploaded_files
             /\ indexCache' = indexCache ]_vars

\* C17 witness: with a message in the history and documents active, a query
\* has been issued and its upstream call has returned a failure
C17_Witness ==
    /\ queries[1].phase = "idle"
    /\ error = "API returned success: false"
    /\ Len(messageHistory) = 1
    /\ Len(uploadedFiles) > 0 /\ pdfReady
    /\ vector_stores # EmptyDict

\* batch b completes on uploadFiles' catch block in this step
CompletesFailed(b) ==
    /\ batches[b].phase = "inflight" /\ batches'[b].phase = "done"
    /\ (AnyRejected(batches[b].st) \/ ~allSuccessful(batches[b].st))

\* C18: an ingestion failure is local to the failing document: the failing
\* upload leaves every store and every other upload's state as they were;
\* a batch that ends in failure leaves the documents that were active and
\* ready before it active and still usable for queries (has_pdf); a failed
\* generation call changes no store and no index.
C18_IngestFailureIsLocal ==
    [][ /\ \A r \in Requests :
              (Processed(r) /\ batches'[r[1]].st[r[2]] # "ok")
                 => /\ vector_stores' = vector_stores
                    /\ \A o \in Requests : o # r => batches'[o[1]].st[o[2]] = StateOf(o)
        /\ \A b \in 1..MaxBatches :
              (CompletesFailed(b) /\ Len(uploadedFiles) > 0 /\ pdfReady)
                 => (uploadedFiles' = uploadedFiles /\ pdfReady')
        /\ (askResp' # askResp /\ askResp'.status = 500)
              => (vector_stores' = vector_stores /\ indexCache' = indexCache) ]_vars

\* C19: a response is unsuccessful only for an unrecoverable failure (the
\* generation or the retrieval failed on an existing index): a query that
\* only lacks its document is answered successfully, and what the client
\* keeps as its current response is always a successful response.
C19_FailureOnlyWhenUnrecoverable ==
    /\ (askResp.called /\ ~askResp.success)
          => (askResp.had_store /\ askResp.status = 500)
    /\ (currentResponse # NullResponse) => currentResponse.success

\* the payload field of a category
PayloadField(cat) ==
    IF cat = "summarization" THEN "summary"
    ELSE IF cat = "comparison" THEN "comparison"
    ELSE IF cat = "rag" THEN "answer"
    ELSE "message"

\* a successful response of one of the four categories that carries its
\* category's payload field and no other
CarriesOwnPayload(r) ==
    /\ r.success /\ r.category \in Categories /\ ~r.requires_document
    /\ r.summary = (r.category = "summarization")
    /\ r.comparison = (r.category = "comparison")
    /\ r.answer = (r.category = "rag")
    /\ r.message = (r.category = "chat")

\* C20: every successful response of each of the four categories that
\* carries its payload field is shown from that field: by the chat (both
\* branches of handleSendMessage) and by the response display, which never
\* shows a placeholder or a raw dump of the result for it.
C20_ShownFromOwnPayload ==
    /\ \A r \in ChatResponses :
          CarriesOwnPayload(r)
             => /\ AgenticBotContent(r) = PayloadField(r.category)
                /\ UploadBotContent(r) = PayloadField(r.category)
    /\ ( /\ displayShown.done
         /\ ~displayProps.isLoading /\ ~displayProps.error
         /\ CarriesOwnPayload(displayProps.response) )
          => displayShown.content = PayloadField(displayProps.response.category)

\* C21: the message history is ordered and append-only: a step that changes
\* it either adds one message at the end, keeping every earlier message in
\* its place, or is the completion of clearHistory or reset, which empties
\* it; no step of processQuery or uploadFiles changes it.
C21_HistoryAppendOnly ==
    [][ /\ messageHistory' # messageHistory
              => \/ /\ Len(messageHistory') = Len(messageHistory) + 1
                    /\ SubSeq(messageHistory', 1, Len(messageHistory)) = messageHistory
                    /\ clearing' = clearing
                 \/ /\ clearing \in {"clearHistory", "reset"} /\ clearing' = "none"
                    /\ messageHistory' = <<>>
        /\ (queries' # queries \/ batches' # batches)
              => messageHistory' = messageHistory ]_vars

\* C21 witness: two different messages in the order they were added, after
\* an upload batch and a query have completed
C21_Witness ==
    /\ messageHistory = <<Msg("user", "text"), Msg("assistant", "text")>>
    /\ batches[1].phase = "done"
    /\ queries[1].phase = "idle" /\ currentResponse # NullResponse

\* batch b leaves uploadFiles in this step
Completes(b) == batches[b].phase = "inflight" /\ batches'[b].phase = "done"

\* C22: when a batch of uploadFiles completes, pdfReady is true exactly if
\* every upload of the batch was answered with success=true; when an upload
\* was rejected or answered with success=false, pdfReady is false, error is
\* set, and the completing step leaves uploadedFiles and currentResponse as
\* they were.
C22_ReadyIffAllUploadsSucceeded ==
    [][ \A b \in 1..MaxBatches :
          Completes(b) =>
            LET st == batches[b].st
                failed == \E i \in 1..Len(st) : st[i] \in {"reject", "fail"}
            IN  /\ pdfReady' = (\A i \in 1..Len(st) : st[i] = "ok")
                /\ failed => /\ pdfReady' = FALSE
                             /\ error' # NoError
                             /\ uploadedFiles' = uploadedFiles
                             /\ currentResponse' = currentResponse ]_vars

\* C22 witness: after a batch that succeeded, a batch of two uploads has
\* completed with one upload successful and the other rejected
C22_Witness ==
    /\ pdfReady = FALSE
    /\ error = "Upload rejected"
    /\ Len(uploadedFiles) > 0
    /\ \E b \in 1..MaxBatches :
          /\ batches[b].phase = "done"
          /\ batches[b].files # uploadedFiles
          /\ \E i, j \in 1..Len(batches[b].st) :
                batches[b].st[i] = "ok" /\ batches[b].st[j] = "reject"

\* query q leaves processQuery in this step
QueryCompletes(q) == queries[q].phase = "inflight" /\ queries'[q].phase = "idle"

\* C23: processQuery sets error to null when it is called.  When it ends in
\* failure (the call was rejected or answered with success=false) it sets
\* error to a message and isProcessing to false and leaves currentResponse,
\* uploadedFiles, messageHistory and pdfReady as they were; when it ends in
\* success it sets currentResponse to the successful response and leaves
\* error as it is: the null of the call, unless another request has set it
\* since.
C23_QueryFailureKeepsState ==
    [][ \A q \in 1..MaxQueries :
          /\ (queries[q].phase = "idle" /\ queries'[q].phase = "inflight")
                => error' = NoError
          /\ QueryCompletes(q) =>
                /\ isProcessing' = FALSE
                /\ uploadedFiles' = uploadedFiles
                /\ messageHistory' = messageHistory
                /\ pdfReady' = pdfReady
                /\ \/ /\ error' \in {"API returned success: false", "Query rejected"}
                      /\ currentResponse' = currentResponse
                   \/ /\ currentResponse' \in HookResponses
                      /\ currentResponse'.success
                      /\ error' = error ]_vars

\* C23 witness: with files uploaded and the response of an earlier query
\* kept, a later query was rejected
C23_Witness ==
    /\ queries[1].phase = "idle"
    /\ error = "Query rejected"
    /\ isProcessing = FALSE
    /\ currentResponse \in HookResponses
    /\ pdfReady /\ Len(uploadedFiles) = 2
    /\ Len(messageHistory) = 2

\* C24: every completion of uploadFiles and of processQuery, on the success
\* path and on every failure path, sets isProcessing to false, and every
\* call whose service call settles completes; handleSendMessage sets
\* isLoading to false when its service call has settled, whatever the
\* outcome, and isLoading is false whenever no call of it is pending.
C24_ProcessingFlagIsReset ==
    /\ [][ /\ \A b \in 1..MaxBatches : Completes(b) => isProcessing' = FALSE
           /\ \A q \in 1..MaxQueries : QueryCompletes(q) => isProcessing' = FALSE
           /\ (chatPending # NoPending /\ chatPending' = NoPending)
                 => isLoading' = FALSE ]_vars
    /\ [](chatPending = NoPending => ~isLoading)
    /\ \A b \in 1..MaxBatches :
          (batches[b].phase = "inflight") ~> (batches[b].phase = "done" /\ ~isProcessing)
    /\ \A q \in 1..MaxQueries :
          (queries[q].phase = "inflight") ~> (queries[q].phase = "idle" /\ ~isProcessing)
    /\ isLoading ~> ~isLoading

\* C24 witness: a query has completed with a response and a batch whose
\* first upload succeeded and whose second was rejected has completed after
\* it; isProcessing is false
C24_Witness ==
    /\ batches[1].phase = "done"
    /\ batches[1].st = <<"ok", "reject">>
    /\ queries[1].phase = "idle"
    /\ currentResponse \in HookResponses
    /\ error = "Upload rejected"
    /\ isProcessing = FALSE

\* C25: clearHistory and reset clear the local state whether the request to
\* clear the backend's memory resolved or failed: the completion of
\* clearHistory empties messageHistory and uploadedFiles, sets
\* currentResponse to null and pdfReady to false and leaves error and
\* isProcessing as they were; the completion of reset sets every field to
\* its initial value.
C25_ClearsDespiteBackendFailure ==
    [][ /\ (clearing = "clearHistory" /\ clearing' = "none")
              => /\ memoryClear' \in FetchOutcomes
                 /\ messageHistory' = <<>>
                 /\ currentResponse' = NullResponse
                 /\ uploadedFiles' = <<>>
                 /\ pdfReady' = FALSE
                 /\ error' = error
                 /\ isProcessing' = isProcessing
        /\ (clearing = "reset" /\ clearing' = "none")
              => /\ memoryClear' \in FetchOutcomes
                 /\ isProcessing' = FALSE
                 /\ currentResponse' = NullResponse
                 /\ error' = NoError
                 /\ uploadedFiles' = <<>>
                 /\ messageHistory' = <<>>
                 /\ pdfReady' = FALSE ]_vars

\* C25 witness: files were uploaded and a query failed; then a clear whose
\* memory-clear request was rejected has emptied the files and the history
\* and kept the error
C25_Witness ==
    /\ memoryClear = "rejected" /\ clearing = "none"
    /\ batches[1].phase = "done" /\ Len(batches[1].files) = 2
    /\ allSuccessful(batches[1].st)
    /\ uploadedFiles = <<>> /\ messageHistory = <<>>
    /\ pdfReady = FALSE /\ currentResponse = NullResponse
    /\ error = "API returned success: false"

\* C26: a handleSendMessage with a text that is empty or white space only
\* sends no request and appends no message: with no file selected it changes
\* nothing, and with files selected it only sets the error 'Please ask a
\* question about the uploaded PDF(s)' and keeps the selected files.
C26_BlankTextSendsNothing ==
    [][ (sendClicks' # sendClicks /\ OnlyWhitespace(inputValue))
          => /\ messages' = messages
             /\ chatPending' = chatPending /\ chatPending = NoPending
             /\ sends' = sends
             /\ isLoading' = isLoading
             /\ selectedFiles' = selectedFiles
             /\ inputValue' = inputValue
             /\ Len(selectedFiles) = 0 => chatError' = chatError
             /\ Len(selectedFiles) > 0
                   => chatError' = "Please ask a question about the uploaded PDF(s)" ]_vars

\* C26 witness: after one exchange, a submit of a white-space text with a
\* file selected has set the error and sent nothing
C26_Witness ==
    /\ sendClicks = 2 /\ sends = 1
    /\ chatPending = NoPending /\ isLoading = FALSE
    /\ Len(messages) = 3
    /\ inputValue = <<" ", " ">>
    /\ Len(selectedFiles) = 1
    /\ chatError = "Please ask a question about the uploaded PDF(s)"

\* a processQuery or uploadFiles call of the hook is awaiting its service call
RequestInFlight ==
    \/ \E b \in 1..MaxBatches : batches[b].phase = "inflight"
    \/ \E q \in 1..MaxQueries : queries[q].phase = "inflight"

\* C27: whenever a processQuery or uploadFiles request of the hook is in
\* flight, isProcessing is true, also when two requests overlap and one of
\* them has completed.
C27_ProcessingWhileInFlight ==
    RequestInFlight => isProcessing

\* C28: in every reachable state of the hook, pdfReady = true implies that
\* uploadedFiles is not empty, also after uploadFiles was called with an
\* empty file list and after a failed batch that follows a successful one.
C28_ReadyImpliesFiles ==
    pdfReady => Len(uploadedFiles) > 0

\* C29: once a clearHistory or reset has completed, a processQuery or
\* uploadFiles request that was issued before it and completes after it
\* does not repopulate the cleared state: with no request issued since,
\* currentResponse is null, uploadedFiles is empty and pdfReady is false.
C29_StaleCompletionKeepsCleared ==
    memoryClear # "none" =>
        /\ currentResponse = NullResponse
        /\ uploadedFiles = <<>>
        /\ pdfReady = FALSE

\* every upload of batch b was answered with success=true
AllOk(b) == \A i \in 1..Len(batches[b].st) : batches[b].st[i] = "ok"

\* C30: when two batches of uploadFiles, each of at least one file, have
\* both completed and no clear was called, uploadedFiles and pdfReady are
\* those the batch issued last leads to, whichever batch completed last:
\* its files and true when it succeeded; when it failed, false and the
\* files the first batch left.
C30_LastIssuedBatchWins ==
    ( /\ batches[1].phase = "done" /\ batches[2].phase = "done"
      /\ batches[1].files # <<>> /\ batches[2].files # <<>>
      /\ memoryClear = "none" /\ clearing = "none" )
      => /\ pdfReady = AllOk(2)
         /\ uploadedFiles = IF AllOk(2) THEN batches[2].files
                             ELSE IF AllOk(1) THEN batches[1].files
                             ELSE <<>>

====
